---- MODULE Spec2Model ----
(***************************************************************************)
(* Checkpoint store of palmframe: the PostgresSaver (checkpoints and       *)
(* writes tables, getTuple / list / put / putWrites) and the per-thread    *)
(* checkpointer cache of the desktop runtime.                              *)
(*                                                                         *)
(* Strings that the code tests for truthiness are modelled so that the     *)
(* falsy values coincide: a checkpoint id is a non-empty sequence of       *)
(* characters and NoId (the empty sequence) stands for both undefined and  *)
(* "", a thread id is a non-empty string and NoThread stands for both.     *)
(***************************************************************************)
EXTENDS Integers, Sequences, FiniteSets, TLC

VARIABLES
    checkpoints,   \* the checkpoints table: a set of rows
    writes,        \* the writes table: a set of rows
    pw,            \* the putWrites call in progress (its for loop)
    gt,            \* the getTuple call in progress (between its two selects)
    ls,            \* the list call in progress (the generator's loop) and what it yielded
    ret,           \* what the most recently completed put, putWrites or getTuple returned
    putLog,        \* history: key -> arguments of the last put that stored it
    lastPut,       \* history: the key stored by the most recent put
    writeLog,      \* history: write key -> the last write submitted under it
    nPut,          \* number of put calls made
    nPutWrites,    \* number of putWrites calls made
    checkpointers, \* runtime.ts: the Map thread id -> handle
    handles,       \* every SqlJsSaver constructed so far, by handle number
    calls,         \* the getCheckpointer calls, by caller
    puts,          \* the put calls that may overlap, by caller (between encoding and insert)
    scan,          \* history: the ids of the chain when the scan read page by page began
    closed,        \* the handles on which close() has been called
    threads,       \* the threads table: thread id -> row
    del,           \* the DELETE /api/threads/:threadId request in progress
    runs           \* the POST /api/agent/stream and /api/agent/resume requests, by run

storeVars == <<checkpoints, writes, pw, gt, ls, ret, putLog, lastPut, writeLog, nPut, nPutWrites,
               puts, scan>>
cacheVars == <<checkpointers, handles, calls, closed>>
webVars == <<threads, del, runs>>
vars == <<checkpoints, writes, pw, gt, ls, ret, putLog, lastPut, writeLog, nPut, nPutWrites,
          checkpointers, handles, calls, puts, scan, closed, threads, del, runs>>

---------------------------------------------------------------------------
(* Bounds *)

\* characters of a checkpoint id are 1..MaxChar
MaxChar == 2
\* payload bodies are <<1>> .. <<MaxBody>>
MaxBody == 2
\* put calls in one behaviour
MaxPuts == 3
\* put calls in one behaviour of the chain specification
MaxChain == 3
\* length of the list handed to one putWrites call
MaxWrites == 3
\* putWrites calls in one behaviour
MaxPutWrites == 2
\* put calls and putWrites calls in one behaviour of the isolation scenario
MaxIsoPuts == 2
MaxIsoPutWrites == 1
\* largest limit handed to list
MaxLimit == 2
\* getCheckpointer callers
MaxCallers == 3
\* putWrites calls in one behaviour of the two-checkpoint scenario
MaxOwnPutWrites == 2
\* put calls and putWrites calls in one behaviour of the frame scenario
MaxFramePuts == 2
MaxFramePutWrites == 2
\* putWrites calls in one behaviour of the prefix scenario
MaxPrefixPutWrites == 1
\* put calls in one behaviour of the re-read scenario
MaxRereadPuts == 3
\* put calls in one behaviour of the parent scenario
MaxParentPuts == 2
\* put calls and putWrites calls in one behaviour of the thread deletion scenario
MaxDelPuts == 2
MaxDelPutWrites == 1
\* agent runs (stream or resume requests) in one behaviour
MaxRuns == 2
\* chunks of one agent stream
MaxChunks == 1
\* callers whose put calls may overlap
MaxPutters == 2

---------------------------------------------------------------------------
(* Values and identifiers *)

NoId == <<>>
NoThread == ""
NsUndefined == "<undefined>"

None == <<>>
Some(x) == <<x>>

\* options.limit left out (undefined)
NoLimit == -1

\* checkpoint ids: strings of one or two characters, compared as text; the
\* longer ones extend the first of the short ones
CheckpointIds == {<<c>> : c \in 1..MaxChar} \cup {<<1, c>> : c \in 1..MaxChar}

RECURSIVE LexLess(_, _)
\* a < b for two strings, character by character (a proper prefix is smaller)
LexLess(a, b) ==
    IF a = <<>> THEN b # <<>>
    ELSE IF b = <<>> THEN FALSE
    ELSE IF a[1] # b[1] THEN a[1] < b[1]
    ELSE LexLess(Tail(a), Tail(b))

Obj(b) == [kind |-> "object", body |-> b]
Bin(b) == [kind |-> "bytes", body |-> b]
\* a value JSON.stringify throws on
Cyclic == [kind |-> "cyclic", body |-> <<>>]
\* a value JSON.stringify gives no text for (undefined): it is encoded, as
\* the empty text, and the empty text does not decode
Undefined == [kind |-> "undefined", body |-> <<>>]
\* the exception loadsTyped throws
DecodeFailure == [kind |-> "DecodeFailure", body |-> <<>>]

Bodies == {<<b>> : b \in 1..MaxBody}

\* the checkpoint object as a serializable value: its id is part of it
CpValue(c) == [kind |-> c.kind, body |-> c.id \o <<0>> \o c.body]

Config(t, ns, id) == [thread_id |-> t, checkpoint_ns |-> ns, checkpoint_id |-> id]

\* (config.configurable?.checkpoint_ns as string) ?? ""
NsOf(config) == IF config.checkpoint_ns = NsUndefined THEN "" ELSE config.checkpoint_ns

---------------------------------------------------------------------------
(* Serializer: this.serde, a SerializerProtocol *)

CanDump(v) == v.kind # "cyclic"

\* dumpsTyped: a Uint8Array is kept as it is under the tag "bytes", anything
\* else becomes JSON text under the tag "json"
dumpsTyped(v) ==
    IF v.kind = "bytes" THEN <<"bytes", v.body>>
    ELSE IF v.kind = "undefined" THEN <<"json", <<>>>>
    ELSE <<"json", <<123>> \o v.body \o <<125>>>>

\* loadsTyped: the inverse under the tag the value was dumped with; JSON text
\* that does not parse, or an unknown tag, throws
loadsTyped(type, data) ==
    IF type = "bytes" THEN Bin(data)
    ELSE IF type = "json"
         THEN IF Len(data) >= 2 /\ data[1] = 123 /\ data[Len(data)] = 125
              THEN Obj(SubSeq(data, 2, Len(data) - 1))
              ELSE DecodeFailure
         ELSE DecodeFailure

---------------------------------------------------------------------------
(* Tables *)

CheckpointKey(r) == <<r.threadId, r.checkpointNs, r.checkpointId>>
WriteKey(r) == <<r.threadId, r.checkpointNs, r.checkpointId, r.taskId, r.idx>>

\* an upsert whose set clause leaves out the parent id
UpsertCheckpointKeepsParent(table, row) ==
    LET conflict == {r \in table : CheckpointKey(r) = CheckpointKey(row)}
    IN  IF conflict = {} THEN table \cup {row}
        ELSE (table \ conflict) \cup
             {[r EXCEPT !.type = row.type,
                        !.checkpoint = row.checkpoint,
                        !.metadata = row.metadata] : r \in conflict}

\* an upsert whose set clause leaves out the metadata
UpsertCheckpointKeepsMetadata(table, row) ==
    LET conflict == {r \in table : CheckpointKey(r) = CheckpointKey(row)}
    IN  IF conflict = {} THEN table \cup {row}
        ELSE (table \ conflict) \cup
             {[r EXCEPT !.parentCheckpointId = row.parentCheckpointId,
                        !.type = row.type,
                        !.checkpoint = row.checkpoint] : r \in conflict}

\* an upsert whose set clause leaves out the payload
UpsertCheckpointKeepsPayload(table, row) ==
    LET conflict == {r \in table : CheckpointKey(r) = CheckpointKey(row)}
    IN  IF conflict = {} THEN table \cup {row}
        ELSE (table \ conflict) \cup
             {[r EXCEPT !.parentCheckpointId = row.parentCheckpointId,
                        !.type = row.type,
                        !.metadata = row.metadata] : r \in conflict}

\* an insert that replaces the whole chain of the row by the row
UpsertCheckpointReplacesChain(table, row) ==
    {r \in table : r.threadId # row.threadId \/ r.checkpointNs # row.checkpointNs}
        \cup {row}

\* db.insert(checkpoints).values(row).onConflictDoUpdate({target: pk, set: ...})
UpsertCheckpoint(table, row) ==
    LET conflict == {r \in table : CheckpointKey(r) = CheckpointKey(row)}
    IN  IF conflict = {} THEN table \cup {row}
        ELSE (table \ conflict) \cup
             {[r EXCEPT !.parentCheckpointId = row.parentCheckpointId,
                        !.type = row.type,
                        !.checkpoint = row.checkpoint,
                        !.metadata = row.metadata] : r \in conflict}

\* an upsert whose conflict target leaves out idx
UpsertWriteWholeTask(table, row) ==
    LET conflict == {r \in table : /\ r.threadId = row.threadId
                                    /\ r.checkpointNs = row.checkpointNs
                                    /\ r.checkpointId = row.checkpointId
                                    /\ r.taskId = row.taskId}
    IN  IF conflict = {} THEN table \cup {row}
        ELSE (table \ conflict) \cup
             {[r EXCEPT !.channel = row.channel,
                        !.type = row.type,
                        !.value = row.value] : r \in conflict}

\* db.insert(writes).values(row).onConflictDoUpdate({target: pk, set: ...})
UpsertWrite(table, row) ==
    LET conflict == {r \in table : WriteKey(r) = WriteKey(row)}
    IN  IF conflict = {} THEN table \cup {row}
        ELSE (table \ conflict) \cup
             {[r EXCEPT !.channel = row.channel,
                        !.type = row.type,
                        !.value = row.value] : r \in conflict}

\* lte in the place of lt
lte(id, before) == id = before \/ LexLess(id, before)

\* lt(checkpoints.checkpointId, before)
lt(id, before) == LexLess(id, before)

\* asc in the place of desc
asc(a, b) == LexLess(a.checkpointId, b.checkpointId)

\* desc(checkpoints.checkpointId): a sorts before b
desc(a, b) == LexLess(b.checkpointId, a.checkpointId)

RECURSIVE OrderByOldestFirst(_)
\* an ordering that puts the smallest id first
OrderByOldestFirst(S) ==
    IF S = {} THEN <<>>
    ELSE LET first == CHOOSE r \in S : \A q \in S : ~LexLess(q.checkpointId, r.checkpointId)
         IN  <<first>> \o OrderByOldestFirst(S \ {first})

RECURSIVE OrderBy(_)
\* .orderBy(desc(checkpoints.checkpointId)) over a set of rows
OrderBy(S) ==
    IF S = {} THEN <<>>
    ELSE LET first == CHOOSE r \in S : \A q \in S : ~desc(q, r)
         IN  <<first>> \o OrderBy(S \ {first})

\* a limit that keeps the last n rows of the ordering
LimitOldest(rows, n) ==
    IF Len(rows) <= n THEN rows ELSE SubSeq(rows, Len(rows) - n + 1, Len(rows))

\* .limit(n)
Limit(rows, n) == IF Len(rows) <= n THEN rows ELSE SubSeq(rows, 1, n)

\* the orders in which a select without ORDER BY may return a set of rows
AnyOrder(S) == {f \in [1..Cardinality(S) -> S] : \A i, j \in 1..Cardinality(S) : f[i] = f[j] => i = j}

\* a where clause that leaves out the namespace
ChainOfAnyNamespace(threadId, checkpointNs) ==
    {r \in checkpoints : r.threadId = threadId}

\* a where clause that leaves out the thread id
ChainOfAnyThread(threadId, checkpointNs) ==
    {r \in checkpoints : r.checkpointNs = checkpointNs}

\* and(eq(checkpoints.threadId, threadId), eq(checkpoints.checkpointNs, checkpointNs))
ChainOf(threadId, checkpointNs) ==
    {r \in checkpoints : r.threadId = threadId /\ r.checkpointNs = checkpointNs}

\* the exact select falling back to the newest row of the chain
ExactRowOrLatest(threadId, checkpointNs, checkpointId) ==
    LET hit == {r \in ChainOf(threadId, checkpointNs) : r.checkpointId = checkpointId}
        chain == ChainOf(threadId, checkpointNs)
    IN  IF hit # {} \/ chain = {} THEN hit
        ELSE {r \in chain : \A q \in chain : ~LexLess(r.checkpointId, q.checkpointId)}

\* the exact select with the checkpoint id left out of its where clause
ExactRowAnyId(threadId, checkpointNs, checkpointId) ==
    LET chain == ChainOf(threadId, checkpointNs)
    IN  {r \in chain : \A q \in chain : ~LexLess(r.checkpointId, q.checkpointId)}

\* and(eq(threadId), eq(checkpointNs), eq(checkpointId)): the rows of the exact select
ExactRow(threadId, checkpointNs, checkpointId) ==
    {r \in checkpoints : /\ r.threadId = threadId
                         /\ r.checkpointNs = checkpointNs
                         /\ r.checkpointId = checkpointId}

\* a writes select whose where clause leaves out the checkpoint id
WritesOfAnyCheckpoint(row) ==
    {w \in writes : /\ w.threadId = row.threadId
                    /\ w.checkpointNs = row.checkpointNs}

\* the writes select of getTuple and list
WritesOf(row) ==
    {w \in writes : /\ w.threadId = row.threadId
                    /\ w.checkpointNs = row.checkpointNs
                    /\ w.checkpointId = row.checkpointId}

---------------------------------------------------------------------------
(* Results *)

Idle == [phase |-> "idle"]

\* at: how many put calls had been made when the call read the tables
Ret(op, outcome, arg, value, at) ==
    [op |-> op, outcome |-> outcome, arg |-> arg, value |-> value, at |-> at]

\* a map that leaves out the rows whose value does not decode
DecodedThatDecode(rows) ==
    LET ok == SelectSeq(rows, LAMBDA w : loadsTyped(w.type, w.value) # DecodeFailure)
    IN  [i \in 1..Len(ok) |->
            <<ok[i].taskId, ok[i].channel, loadsTyped(ok[i].type, ok[i].value)>>]

\* [w.taskId, w.channel, loadsTyped(w.type, w.value)] for each row, in order
Decoded(rows) == [i \in 1..Len(rows) |->
                    <<rows[i].taskId, rows[i].channel, loadsTyped(rows[i].type, rows[i].value)>>]

\* a tuple that refers to its parent only when the parent has a row
TupleOfStoredParent(row, own, pending) ==
    [checkpoint |-> loadsTyped(row.type, row.checkpoint),
     config |-> own,
     metadata |-> loadsTyped(row.type, row.metadata),
     parentConfig |-> IF \E r \in checkpoints :
                              /\ r.threadId = row.threadId
                              /\ r.checkpointNs = row.checkpointNs
                              /\ r.checkpointId = row.parentCheckpointId
                      THEN Some(Config(row.threadId, row.checkpointNs, row.parentCheckpointId))
                      ELSE None,
     pendingWrites |-> Decoded(pending)]

\* the CheckpointTuple built from a row; own is the config field
TupleOf(row, own, pending) ==
    [checkpoint |-> loadsTyped(row.type, row.checkpoint),
     config |-> own,
     metadata |-> loadsTyped(row.type, row.metadata),
     parentConfig |-> IF row.parentCheckpointId # NoId
                      THEN Some(Config(row.threadId, row.checkpointNs, row.parentCheckpointId))
                      ELSE None,
     pendingWrites |-> Decoded(pending)]

\* an await of loadsTyped threw while the tuple was built
Throws(tuple) ==
    \/ tuple.checkpoint = DecodeFailure
    \/ tuple.metadata = DecodeFailure
    \/ \E i \in 1..Len(tuple.pendingWrites) : tuple.pendingWrites[i][3] = DecodeFailure

---------------------------------------------------------------------------
(* PostgresSaver.put *)

\* a put that runs its insert although the encoding failed, and then fails
putThatInsertsUnencoded(config, checkpoint, metadata) ==
    LET d1 == dumpsTyped(CpValue(checkpoint))
        d2 == dumpsTyped(metadata)
        row == [threadId |-> config.thread_id,
                checkpointNs |-> NsOf(config),
                checkpointId |-> checkpoint.id,
                parentCheckpointId |-> config.checkpoint_id,
                type |-> d1[1],
                checkpoint |-> d1[2],
                metadata |-> d2[2]]
        key == <<config.thread_id, NsOf(config), checkpoint.id>>
        ok == CanDump(CpValue(checkpoint)) /\ CanDump(metadata)
    IN  /\ nPut' = nPut + 1
        /\ checkpoints' = UpsertCheckpoint(checkpoints, row)
        /\ IF ok
           THEN /\ putLog' = (key :> [parent |-> config.checkpoint_id,
                                      checkpoint |-> checkpoint,
                                      metadata |-> metadata,
                                      replaced |-> /\ key \in DOMAIN putLog
                                                   /\ putLog[key].checkpoint # checkpoint])
                             @@ putLog
                /\ lastPut' = Some(key)
                /\ ret' = Ret("put", "ok", config,
                              Config(config.thread_id, NsOf(config), checkpoint.id), nPut + 1)
           ELSE /\ ret' = Ret("put", "error", config, None, nPut + 1)
                /\ UNCHANGED <<putLog, lastPut>>
        /\ UNCHANGED <<writes, pw, gt, ls, writeLog, nPutWrites>>
        /\ UNCHANGED cacheVars
        /\ UNCHANGED webVars
        /\ UNCHANGED <<puts, scan>>

put(config, checkpoint, metadata) ==
    LET threadId == config.thread_id
        checkpointNs == NsOf(config)
        parentCheckpointId == config.checkpoint_id
        d1 == dumpsTyped(CpValue(checkpoint))
        d2 == dumpsTyped(metadata)
        row == [threadId |-> threadId,
                checkpointNs |-> checkpointNs,
                checkpointId |-> checkpoint.id,
                parentCheckpointId |-> parentCheckpointId,
                type |-> d1[1],
                checkpoint |-> d1[2],
                metadata |-> d2[2]]
        key == <<threadId, checkpointNs, checkpoint.id>>
    IN  /\ nPut' = nPut + 1
        /\ IF CanDump(CpValue(checkpoint)) /\ CanDump(metadata)
           THEN /\ checkpoints' = UpsertCheckpoint(checkpoints, row)
                /\ putLog' = (key :> [parent |-> parentCheckpointId,
                                      checkpoint |-> checkpoint,
                                      metadata |-> metadata,
                                      replaced |-> /\ key \in DOMAIN putLog
                                                   /\ putLog[key].checkpoint # checkpoint])
                             @@ putLog
                /\ lastPut' = Some(key)
                /\ ret' = Ret("put", "ok", config,
                              Config(threadId, checkpointNs, checkpoint.id), nPut + 1)
           ELSE /\ ret' = Ret("put", "error", config, None, nPut + 1)
                /\ UNCHANGED <<checkpoints, putLog, lastPut>>
        /\ UNCHANGED <<writes, pw, gt, ls, writeLog, nPutWrites>>
        /\ UNCHANGED cacheVars
        /\ UNCHANGED webVars
        /\ UNCHANGED <<puts, scan>>

\* put calls that overlap: a call is suspended at its await of the two
\* dumpsTyped promises and at its await of the insert statement, so another
\* call may run between its encoding and its insert. putStart is the call up
\* to the first await; overlapped records that two calls were in flight at once
putStart(p, config, checkpoint, metadata) ==
    /\ puts[p].phase = "idle"
    /\ puts' = [q \in DOMAIN puts |->
                  IF q = p
                  THEN [phase |-> "encoding", config |-> config, checkpoint |-> checkpoint,
                        metadata |-> metadata, value |-> None,
                        overlapped |-> \E o \in DOMAIN puts : puts[o].phase = "encoding"]
                  ELSE IF puts[q].phase = "encoding"
                       THEN [puts[q] EXCEPT !.overlapped = TRUE]
                       ELSE puts[q]]
    /\ UNCHANGED <<checkpoints, writes, pw, gt, ls, ret, putLog, lastPut, writeLog, nPut,
                   nPutWrites, scan>>
    /\ UNCHANGED cacheVars
    /\ UNCHANGED webVars

\* the rest of the call: the insert ... onConflictDoUpdate statement, which
\* the database applies as one statement, and the return of the config
putCommit(p) ==
    LET config == puts[p].config
        checkpoint == puts[p].checkpoint
        metadata == puts[p].metadata
        threadId == config.thread_id
        checkpointNs == NsOf(config)
        parentCheckpointId == config.checkpoint_id
        d1 == dumpsTyped(CpValue(checkpoint))
        d2 == dumpsTyped(metadata)
        row == [threadId |-> threadId,
                checkpointNs |-> checkpointNs,
                checkpointId |-> checkpoint.id,
                parentCheckpointId |-> parentCheckpointId,
                type |-> d1[1],
                checkpoint |-> d1[2],
                metadata |-> d2[2]]
        key == <<threadId, checkpointNs, checkpoint.id>>
    IN  /\ puts[p].phase = "encoding"
        /\ IF CanDump(CpValue(checkpoint)) /\ CanDump(metadata)
           THEN /\ checkpoints' = UpsertCheckpoint(checkpoints, row)
                /\ putLog' = (key :> [parent |-> parentCheckpointId,
                                      checkpoint |-> checkpoint,
                                      metadata |-> metadata,
                                      replaced |-> /\ key \in DOMAIN putLog
                                                   /\ putLog[key].checkpoint # checkpoint])
                             @@ putLog
                /\ lastPut' = Some(key)
                /\ nPut' = nPut + 1
                /\ puts' = [puts EXCEPT ![p].phase = "returned",
                                        ![p].value = Config(threadId, checkpointNs, checkpoint.id)]
           ELSE /\ puts' = [puts EXCEPT ![p].phase = "threw"]
                /\ UNCHANGED <<checkpoints, putLog, lastPut, nPut>>
        /\ UNCHANGED <<writes, pw, gt, ls, ret, writeLog, nPutWrites, scan>>
        /\ UNCHANGED cacheVars
        /\ UNCHANGED webVars

---------------------------------------------------------------------------
(* PostgresSaver.getTuple *)

\* up to the first select: the row is chosen, or undefined is returned
getTupleSelect(config) ==
    LET threadId == config.thread_id
        checkpointNs == NsOf(config)
        checkpointId == config.checkpoint_id
        rows == IF checkpointId # NoId
                THEN {<<r>> : r \in ExactRow(threadId, checkpointNs, checkpointId)}
                ELSE {Limit(OrderBy(ChainOf(threadId, checkpointNs)), 1)}
    IN  /\ gt.phase = "idle"
        /\ \/ /\ threadId = NoThread \/ rows \subseteq {<<>>}
              /\ ret' = Ret("getTuple", "undefined", config, None, nPut)
              /\ UNCHANGED gt
           \/ /\ threadId # NoThread
              /\ \E rs \in rows :
                    /\ rs # <<>>
                    /\ gt' = [phase |-> "row", config |-> config, row |-> rs[1], at |-> nPut]
              /\ UNCHANGED ret
        /\ UNCHANGED <<checkpoints, writes, pw, ls, putLog, lastPut, writeLog, nPut, nPutWrites>>
        /\ UNCHANGED cacheVars
        /\ UNCHANGED webVars
        /\ UNCHANGED <<puts, scan>>

\* the writes select, the decoding and the return
getTupleReturn ==
    /\ gt.phase = "row"
    /\ \E pending \in AnyOrder(WritesOf(gt.row)) :
          LET own == IF gt.config.checkpoint_id # NoId
                     THEN gt.config
                     ELSE Config(gt.row.threadId, gt.row.checkpointNs, gt.row.checkpointId)
              tuple == TupleOf(gt.row, own, pending)
          IN  ret' = IF Throws(tuple)
                     THEN Ret("getTuple", "error", gt.config, None, gt.at)
                     ELSE Ret("getTuple", "ok", gt.config, tuple, gt.at)
    /\ gt' = Idle
    /\ UNCHANGED <<checkpoints, writes, pw, ls, putLog, lastPut, writeLog, nPut, nPutWrites>>
    /\ UNCHANGED cacheVars
    /\ UNCHANGED webVars
    /\ UNCHANGED <<puts, scan>>

---------------------------------------------------------------------------
(* PostgresSaver.list *)

\* the generator up to its checkpoints query; acc, paging and start describe
\* the caller: the pages it has read so far, whether it reads page by page,
\* and how many put calls had been made when it asked for its first page
listStart(config, limit, before, acc, paging, start) ==
    LET threadId == config.thread_id
        checkpointNs == NsOf(config)
        matching == {r \in ChainOf(threadId, checkpointNs) :
                        before # NoId => lt(r.checkpointId, before)}
        query == OrderBy(matching)
        rows == IF threadId = NoThread THEN <<>>
                ELSE IF limit # NoLimit /\ limit # 0 THEN Limit(query, limit) ELSE query
    IN  /\ ls' = [phase |-> "loop", config |-> config, limit |-> limit, before |-> before,
                  rows |-> rows, out |-> <<>>, acc |-> acc, paging |-> paging,
                  start |-> start, at |-> nPut]
        /\ UNCHANGED <<checkpoints, writes, pw, gt, ret, putLog, lastPut, writeLog, nPut, nPutWrites>>
        /\ UNCHANGED cacheVars
        /\ UNCHANGED webVars
        /\ UNCHANGED puts

\* list(config, {limit, before}); limit is NoLimit when the options leave it out
list(config, limit, before) ==
    /\ ls.phase # "loop"
    /\ listStart(config, limit, before, <<>>, before = NoId /\ limit >= 1, nPut)
    /\ UNCHANGED scan

\* a generator that selects the remaining checkpoint rows again at each turn
listYieldLive ==
    /\ ls.phase = "loop"
    /\ ls.rows # <<>>
    /\ \E pending \in AnyOrder(WritesOf(Head(ls.rows))) :
          LET row == Head(ls.rows)
              tuple == TupleOf(row, Config(row.threadId, row.checkpointNs, row.checkpointId),
                               pending)
              rest == OrderBy({r \in ChainOf(row.threadId, row.checkpointNs) :
                                  lt(r.checkpointId, row.checkpointId)})
          IN  ls' = IF Throws(tuple)
                    THEN [ls EXCEPT !.phase = "threw"]
                    ELSE [ls EXCEPT !.rows = rest, !.out = Append(@, tuple)]
    /\ UNCHANGED <<checkpoints, writes, pw, gt, ret, putLog, lastPut, writeLog, nPut, nPutWrites>>
    /\ UNCHANGED cacheVars
    /\ UNCHANGED webVars
    /\ UNCHANGED <<puts, scan>>

\* one turn of the for loop: the writes select, the decoding, the yield
listYield ==
    /\ ls.phase = "loop"
    /\ ls.rows # <<>>
    /\ \E pending \in AnyOrder(WritesOf(Head(ls.rows))) :
          LET row == Head(ls.rows)
              tuple == TupleOf(row, Config(row.threadId, row.checkpointNs, row.checkpointId),
                               pending)
          IN  ls' = IF Throws(tuple)
                    THEN [ls EXCEPT !.phase = "threw"]
                    ELSE [ls EXCEPT !.rows = Tail(@), !.out = Append(@, tuple)]
    /\ UNCHANGED <<checkpoints, writes, pw, gt, ret, putLog, lastPut, writeLog, nPut, nPutWrites>>
    /\ UNCHANGED cacheVars
    /\ UNCHANGED webVars
    /\ UNCHANGED <<puts, scan>>

\* the rows are exhausted: the generator returns
listReturn ==
    /\ ls.phase = "loop"
    /\ ls.rows = <<>>
    /\ ls' = [ls EXCEPT !.phase = "done", !.acc = @ \o ls.out]
    /\ UNCHANGED <<checkpoints, writes, pw, gt, ret, putLog, lastPut, writeLog, nPut, nPutWrites>>
    /\ UNCHANGED cacheVars
    /\ UNCHANGED webVars
    /\ UNCHANGED <<puts, scan>>

\* a caller reading page by page asks for the next page: the same config and
\* limit, before set to the last id it has seen
listNextPage ==
    /\ ls.phase = "done"
    /\ ls.paging
    /\ ls.out # <<>>
    /\ listStart(ls.config, ls.limit, ls.out[Len(ls.out)].config.checkpoint_id,
                 ls.acc, TRUE, ls.start)
    /\ UNCHANGED scan

\* a caller begins to read the chain page by page while others may put: the
\* first page, without before
listScan(config, limit) ==
    /\ ls.phase # "loop"
    /\ limit >= 1
    /\ listStart(config, limit, NoId, <<>>, TRUE, nPut)
    /\ scan' = {r.checkpointId : r \in ChainOf(config.thread_id, NsOf(config))}

---------------------------------------------------------------------------
(* GET /api/threads/:threadId/history *)

\* parseInt(url.searchParams.get("limit") || "50", 10): the default
HistoryDefaultLimit == 50

\* the checkpoint history of the thread's root namespace; limit is None when
\* the request has no limit parameter
history(threadId, limit) ==
    LET n == IF limit = None THEN HistoryDefaultLimit ELSE limit[1]
        rows == Limit(OrderBy(ChainOf(threadId, "")), n)
    IN  /\ ret' = Ret("history", "ok", Config(threadId, "", NoId),
                      [i \in 1..Len(rows) |->
                          [thread_id |-> rows[i].threadId,
                           checkpoint_ns |-> rows[i].checkpointNs,
                           checkpoint_id |-> rows[i].checkpointId,
                           parent_checkpoint_id |-> rows[i].parentCheckpointId]],
                      nPut)
        /\ UNCHANGED <<checkpoints, writes, pw, gt, ls, putLog, lastPut, writeLog, nPut, nPutWrites>>
        /\ UNCHANGED cacheVars
        /\ UNCHANGED webVars
        /\ UNCHANGED <<puts, scan>>

---------------------------------------------------------------------------
(* PostgresSaver.putWrites *)

putWrites(config, pendingWrites, taskId) ==
    /\ pw.phase # "loop"
    /\ nPutWrites' = nPutWrites + 1
    /\ pw' = [phase |-> "loop", config |-> config, pendingWrites |-> pendingWrites,
              taskId |-> taskId, idx |-> 0, before |-> writes,
              prev |-> IF pw.phase = "returned"
                       THEN Some([config |-> pw.config, taskId |-> pw.taskId,
                                  pendingWrites |-> pw.pendingWrites])
                       ELSE None]
    /\ UNCHANGED <<checkpoints, writes, gt, ls, ret, putLog, lastPut, writeLog, nPut>>
    /\ UNCHANGED cacheVars
    /\ UNCHANGED webVars
    /\ UNCHANGED <<puts, scan>>

\* a loop that stores the writes of the list from the last to the first
putWritesStepLastFirst ==
    /\ pw.phase = "loop"
    /\ pw.idx < Len(pw.pendingWrites)
    /\ LET at == Len(pw.pendingWrites) - pw.idx
           write == pw.pendingWrites[at]
           d == dumpsTyped(write[2])
           row == [threadId |-> pw.config.thread_id,
                   checkpointNs |-> NsOf(pw.config),
                   checkpointId |-> pw.config.checkpoint_id,
                   taskId |-> pw.taskId,
                   idx |-> at - 1,
                   channel |-> write[1],
                   type |-> d[1],
                   value |-> d[2]]
       IN  IF CanDump(write[2])
           THEN /\ writes' = UpsertWrite(writes, row)
                /\ writeLog' = (WriteKey(row) :> write) @@ writeLog
                /\ pw' = [pw EXCEPT !.idx = @ + 1]
                /\ UNCHANGED ret
           ELSE /\ pw' = [pw EXCEPT !.phase = "threw"]
                /\ ret' = Ret("putWrites", "error", pw.config, None, nPut)
                /\ UNCHANGED <<writes, writeLog>>
    /\ UNCHANGED <<checkpoints, gt, ls, putLog, lastPut, nPut, nPutWrites>>
    /\ UNCHANGED cacheVars
    /\ UNCHANGED webVars
    /\ UNCHANGED <<puts, scan>>

\* one turn of the for loop: dumpsTyped, then the upsert of row idx
putWritesStep ==
    /\ pw.phase = "loop"
    /\ pw.idx < Len(pw.pendingWrites)
    /\ LET write == pw.pendingWrites[pw.idx + 1]
           d == dumpsTyped(write[2])
           row == [threadId |-> pw.config.thread_id,
                   checkpointNs |-> NsOf(pw.config),
                   checkpointId |-> pw.config.checkpoint_id,
                   taskId |-> pw.taskId,
                   idx |-> pw.idx,
                   channel |-> write[1],
                   type |-> d[1],
                   value |-> d[2]]
       IN  IF CanDump(write[2])
           THEN /\ writes' = UpsertWrite(writes, row)
                /\ writeLog' = (WriteKey(row) :> write) @@ writeLog
                /\ pw' = [pw EXCEPT !.idx = @ + 1]
                /\ UNCHANGED ret
           ELSE /\ pw' = [pw EXCEPT !.phase = "threw"]
                /\ ret' = Ret("putWrites", "error", pw.config, None, nPut)
                /\ UNCHANGED <<writes, writeLog>>
    /\ UNCHANGED <<checkpoints, gt, ls, putLog, lastPut, nPut, nPutWrites>>
    /\ UNCHANGED cacheVars
    /\ UNCHANGED webVars
    /\ UNCHANGED <<puts, scan>>

\* the loop is over: the call resolves
putWritesReturn ==
    /\ pw.phase = "loop"
    /\ pw.idx = Len(pw.pendingWrites)
    /\ pw' = [pw EXCEPT !.phase = "returned"]
    /\ ret' = Ret("putWrites", "ok", pw.config, None, nPut)
    /\ UNCHANGED <<checkpoints, writes, gt, ls, putLog, lastPut, writeLog, nPut, nPutWrites>>
    /\ UNCHANGED cacheVars
    /\ UNCHANGED webVars
    /\ UNCHANGED <<puts, scan>>

---------------------------------------------------------------------------
(* runtime.ts: the per-thread checkpointer cache *)

\* getCheckpointer up to its await: a cached handle is returned at once,
\* otherwise a SqlJsSaver is constructed and initialize() is started
getCheckpointer(p, threadId) ==
    /\ calls[p].pc = "idle"
    /\ IF threadId \in DOMAIN checkpointers
       THEN /\ calls' = [calls EXCEPT ![p] = [pc |-> "returned", threadId |-> threadId,
                                              checkpointer |-> checkpointers[threadId]]]
            /\ UNCHANGED handles
       ELSE /\ handles' = Append(handles, [threadId |-> threadId, initialized |-> FALSE])
            /\ calls' = [calls EXCEPT ![p] = [pc |-> "initialize", threadId |-> threadId,
                                              checkpointer |-> Len(handles) + 1]]
    /\ UNCHANGED checkpointers
    /\ UNCHANGED storeVars
    /\ UNCHANGED <<closed, webVars>>

\* initialize() has resolved: the handle is put in the Map and returned
getCheckpointerResume(p) ==
    /\ calls[p].pc = "initialize"
    /\ handles' = [handles EXCEPT ![calls[p].checkpointer].initialized = TRUE]
    /\ checkpointers' = (calls[p].threadId :> calls[p].checkpointer) @@ checkpointers
    /\ calls' = [calls EXCEPT ![p].pc = "returned"]
    /\ UNCHANGED storeVars
    /\ UNCHANGED <<closed, webVars>>

\* closeCheckpointer up to its await: close() is called on the cached handle,
\* which stays in the Map; without a cached handle the call does nothing
closeCheckpointer(p, threadId) ==
    /\ calls[p].pc = "idle"
    /\ IF threadId \in DOMAIN checkpointers
       THEN /\ closed' = closed \cup {checkpointers[threadId]}
            /\ calls' = [calls EXCEPT ![p] = [pc |-> "close", threadId |-> threadId,
                                              checkpointer |-> checkpointers[threadId]]]
       ELSE /\ calls' = [calls EXCEPT ![p] = [pc |-> "closed", threadId |-> threadId,
                                              checkpointer |-> 0]]
            /\ UNCHANGED closed
    /\ UNCHANGED <<checkpointers, handles>>
    /\ UNCHANGED storeVars
    /\ UNCHANGED webVars

\* close() has resolved: checkpointers.delete(threadId)
closeCheckpointerResume(p) ==
    /\ calls[p].pc = "close"
    /\ checkpointers' = [t \in DOMAIN checkpointers \ {calls[p].threadId} |-> checkpointers[t]]
    /\ calls' = [calls EXCEPT ![p].pc = "closed"]
    /\ UNCHANGED <<handles, closed>>
    /\ UNCHANGED storeVars
    /\ UNCHANGED webVars

\* closeRuntime up to its await: close() is called on every handle in the Map
closeRuntime(p) ==
    /\ calls[p].pc = "idle"
    /\ closed' = closed \cup {checkpointers[t] : t \in DOMAIN checkpointers}
    /\ calls' = [calls EXCEPT ![p] = [pc |-> "closeAll", threadId |-> NoThread,
                                      checkpointer |-> 0]]
    /\ UNCHANGED <<checkpointers, handles>>
    /\ UNCHANGED storeVars
    /\ UNCHANGED webVars

\* Promise.all has resolved: checkpointers.clear()
closeRuntimeResume(p) ==
    /\ calls[p].pc = "closeAll"
    /\ checkpointers' = <<>>
    /\ calls' = [calls EXCEPT ![p].pc = "closedAll"]
    /\ UNCHANGED <<handles, closed>>
    /\ UNCHANGED storeVars
    /\ UNCHANGED webVars

---------------------------------------------------------------------------
(* POST /api/threads and DELETE /api/threads/:threadId *)

\* POST /api/threads: a row with a fresh id is inserted with status idle
POST_threads(threadId) ==
    /\ threadId \notin DOMAIN threads
    /\ threads' = (threadId :> [status |-> "idle"]) @@ threads
    /\ UNCHANGED <<del, runs>>
    /\ UNCHANGED storeVars
    /\ UNCHANGED cacheVars

\* a delete without its where clause
DeleteEveryThread(table, threadId) == {}

\* db.delete(table).where(eq(table.threadId, threadId)): what remains
DeleteWhereThread(table, threadId) ==
    {r \in table : r.threadId # threadId}

\* a log without the keys of a thread, whose rows have been deleted
WithoutThread(log, threadId) ==
    [k \in {j \in DOMAIN log : j[1] # threadId} |-> log[k]]

\* DELETE up to its first statement; cps and wrs record what the request removed
DELETE(threadId) ==
    /\ del.pc \in {"idle", "returned"}
    /\ del' = [pc |-> "checkpoints", threadId |-> threadId, cps |-> {}, wrs |-> {}]
    /\ UNCHANGED <<threads, runs>>
    /\ UNCHANGED storeVars
    /\ UNCHANGED cacheVars

\* await db.delete(checkpoints).where(eq(checkpoints.threadId, threadId))
DELETE_checkpoints ==
    /\ del.pc = "checkpoints"
    /\ checkpoints' = DeleteWhereThread(checkpoints, del.threadId)
    /\ putLog' = WithoutThread(putLog, del.threadId)
    /\ del' = [del EXCEPT !.pc = "writes", !.cps = checkpoints \ checkpoints']
    /\ UNCHANGED <<writes, pw, gt, ls, ret, lastPut, writeLog, nPut, nPutWrites, puts, scan>>
    /\ UNCHANGED <<threads, runs>>
    /\ UNCHANGED cacheVars

\* await db.delete(writes).where(eq(writes.threadId, threadId))
DELETE_writes ==
    /\ del.pc = "writes"
    /\ writes' = DeleteWhereThread(writes, del.threadId)
    /\ writeLog' = WithoutThread(writeLog, del.threadId)
    /\ del' = [del EXCEPT !.pc = "threads", !.wrs = writes \ writes']
    /\ UNCHANGED <<checkpoints, pw, gt, ls, ret, putLog, lastPut, nPut, nPutWrites, puts, scan>>
    /\ UNCHANGED <<threads, runs>>
    /\ UNCHANGED cacheVars

\* await db.delete(threads).where(eq(threads.threadId, threadId)), then the
\* response { success: true }
DELETE_threads ==
    /\ del.pc = "threads"
    /\ threads' = [t \in DOMAIN threads \ {del.threadId} |-> threads[t]]
    /\ del' = [del EXCEPT !.pc = "returned"]
    /\ UNCHANGED runs
    /\ UNCHANGED storeVars
    /\ UNCHANGED cacheVars

---------------------------------------------------------------------------
(* POST /api/agent/stream and POST /api/agent/resume: the run inside the
   start() of the response stream. Both routes run the same steps; log is
   what the run has done so far *)

\* db.update(threads).set({ status }).where(eq(threads.threadId, threadId))
SetStatus(table, threadId, status) ==
    [t \in DOMAIN table |-> IF t = threadId THEN [table[t] EXCEPT !.status = status]
                            ELSE table[t]]

\* the request up to the first await of start(): the thread was found, the
\* stream is constructed and the update to busy is issued
POST_run(r, route, threadId) ==
    /\ runs[r].pc = "idle"
    /\ threadId \in DOMAIN threads
    /\ runs' = [runs EXCEPT ![r] = [pc |-> "busy", route |-> route, threadId |-> threadId,
                                    log |-> <<>>, threw |-> FALSE]]
    /\ UNCHANGED <<threads, del>>
    /\ UNCHANGED storeVars
    /\ UNCHANGED cacheVars

POST_stream(r, threadId) == POST_run(r, "stream", threadId)

POST_resume(r, threadId) == POST_run(r, "resume", threadId)

\* the update to busy has run; createAgentRuntime is awaited
run_busy(r) ==
    /\ runs[r].pc = "busy"
    /\ threads' = SetStatus(threads, runs[r].threadId, "busy")
    /\ runs' = [runs EXCEPT ![r].pc = "create", ![r].log = Append(@, "busy")]
    /\ UNCHANGED del
    /\ UNCHANGED storeVars
    /\ UNCHANGED cacheVars

\* the catch block up to its await: the error event is enqueued and the
\* update to error is issued
Caught(run) ==
    [run EXCEPT !.pc = "error_update", !.threw = TRUE, !.log = Append(@, "error")]

\* createAgentRuntime resolves with the agent, or throws
run_create(r) ==
    /\ runs[r].pc = "create"
    /\ \/ runs' = [runs EXCEPT ![r].pc = "stream", ![r].log = Append(@, "agent")]
       \/ runs' = [runs EXCEPT ![r] = Caught(@)]
    /\ UNCHANGED <<threads, del>>
    /\ UNCHANGED storeVars
    /\ UNCHANGED cacheVars

\* the agent stream yields a chunk, which is enqueued as a stream event, or
\* throws, or ends: then the done event is enqueued and the update to idle
\* is issued
run_stream(r) ==
    /\ runs[r].pc = "stream"
    /\ \/ /\ Len(SelectSeq(runs[r].log, LAMBDA e : e = "stream")) < MaxChunks
          /\ runs' = [runs EXCEPT ![r].log = Append(@, "stream")]
       \/ runs' = [runs EXCEPT ![r] = Caught(@)]
       \/ runs' = [runs EXCEPT ![r].pc = "idle_update", ![r].log = Append(@, "done")]
    /\ UNCHANGED <<threads, del>>
    /\ UNCHANGED storeVars
    /\ UNCHANGED cacheVars

\* the update to idle has run: controller.close()
run_idle(r) ==
    /\ runs[r].pc = "idle_update"
    /\ threads' = SetStatus(threads, runs[r].threadId, "idle")
    /\ runs' = [runs EXCEPT ![r].pc = "finished", ![r].log = @ \o <<"idle", "close">>]
    /\ UNCHANGED del
    /\ UNCHANGED storeVars
    /\ UNCHANGED cacheVars

\* the update to error has run: controller.close()
run_error(r) ==
    /\ runs[r].pc = "error_update"
    /\ threads' = SetStatus(threads, runs[r].threadId, "error")
    /\ runs' = [runs EXCEPT ![r].pc = "finished", ![r].log = @ \o <<"status_error", "close">>]
    /\ UNCHANGED del
    /\ UNCHANGED storeVars
    /\ UNCHANGED cacheVars

---------------------------------------------------------------------------
(* Initial state *)

Init ==
    /\ checkpoints = {}
    /\ writes = {}
    /\ pw = Idle
    /\ gt = Idle
    /\ ls = Idle
    /\ ret = Ret("none", "none", Config(NoThread, "", NoId), None, 0)
    /\ putLog = <<>>
    /\ lastPut = None
    /\ writeLog = <<>>
    /\ nPut = 0
    /\ nPutWrites = 0
    /\ checkpointers = <<>>
    /\ handles = <<>>
    /\ calls = [p \in 1..MaxCallers |-> [pc |-> "idle", threadId |-> NoThread, checkpointer |-> 0]]
    /\ puts = [p \in 1..MaxPutters |-> Idle]
    /\ scan = {}
    /\ closed = {}
    /\ threads = <<>>
    /\ del = [pc |-> "idle", threadId |-> NoThread, cps |-> {}, wrs |-> {}]
    /\ runs = [r \in 1..MaxRuns |-> [pc |-> "idle", route |-> "none", threadId |-> NoThread,
                                     log |-> <<>>, threw |-> FALSE]]

---------------------------------------------------------------------------
(* put and getTuple on one chain, with every kind of value *)

PutIds == {<<1>>, <<2>>}
PutCheckpoints == {[id |-> id, kind |-> "object", body |-> b] : id \in PutIds, b \in Bodies}
    \cup {[id |-> id, kind |-> "cyclic", body |-> <<1>>] : id \in PutIds}
PutMetadata == {Obj(<<1>>), Bin(<<1>>), Cyclic}

NextPut ==
    \/ \E parent \in {NoId, <<1>>}, c \in PutCheckpoints, m \in PutMetadata :
          /\ nPut < MaxPuts
          /\ put(Config("A", "", parent), c, m)
    \/ \E id \in PutIds \cup {NoId} : getTupleSelect(Config("A", "", id))
    \/ getTupleReturn

SpecPut == Init /\ [][NextPut]_vars

\* C1: put followed by getTuple with the config put returned yields a
\* checkpoint and a metadata equal to the ones that were put
RoundTrip ==
    \A k \in DOMAIN putLog :
        (/\ ret.op = "getTuple"
         /\ ret.arg = Config(k[1], k[2], k[3])
         /\ ret.at = nPut)
        => /\ ret.outcome = "ok"
           /\ ret.value.checkpoint = CpValue(putLog[k].checkpoint)
           /\ ret.value.metadata = putLog[k].metadata

\* C2: the checkpoints table holds exactly one row for each key that was
\* put, carrying the parent id, type, payload and metadata of the most recent
\* put of that key, and no other row
UpsertLatest ==
    /\ \A r \in checkpoints : CheckpointKey(r) \in DOMAIN putLog
    /\ \A k \in DOMAIN putLog :
          LET rs == {r \in checkpoints : CheckpointKey(r) = k}
              last == putLog[k]
          IN  /\ Cardinality(rs) = 1
              /\ \A r \in rs :
                    /\ r.parentCheckpointId = last.parent
                    /\ r.type = dumpsTyped(CpValue(last.checkpoint))[1]
                    /\ r.checkpoint = dumpsTyped(CpValue(last.checkpoint))[2]
                    /\ r.metadata = dumpsTyped(last.metadata)[2]

\* a key put twice, the second time with another payload
UpsertLatestWitness ==
    \E k \in DOMAIN putLog :
        /\ putLog[k].replaced
        /\ Cardinality({r \in checkpoints : CheckpointKey(r) = k}) = 1

\* C22: a put whose checkpoint or metadata the serializer cannot encode fails
\* and leaves the checkpoints table exactly as it was, so a row stored under
\* that id keeps its parent, type, payload and metadata; a put that succeeds
\* had a checkpoint and metadata the serializer can encode
EncodeFailureLeavesTable ==
    [][nPut' # nPut
        => IF ret'.outcome = "error"
           THEN checkpoints' = checkpoints
           ELSE /\ ret'.outcome = "ok"
                /\ lastPut' # None
                /\ CanDump(CpValue(putLog'[lastPut'[1]].checkpoint))
                /\ CanDump(putLog'[lastPut'[1]].metadata)]_vars

\* the most recent put failed when both ids had a row: it addressed a row
\* stored before
EncodeFailureLeavesTableWitness ==
    /\ ret.op = "put"
    /\ ret.outcome = "error"
    /\ ret.at = nPut
    /\ \A id \in PutIds : \E r \in checkpoints : r.checkpointId = id

\* the key a config with a checkpoint id addresses
KeyOf(config) == <<config.thread_id, NsOf(config), config.checkpoint_id>>

\* C12: getTuple with a checkpoint id reads the row of exactly that (thread,
\* namespace, checkpoint id): it returns undefined when no such row exists,
\* also when the chain holds other checkpoints, and otherwise the checkpoint
\* stored under that id, never the latest or any other one
ExactLookup ==
    /\ (gt.phase = "row" /\ gt.config.checkpoint_id # NoId)
       => CheckpointKey(gt.row) = KeyOf(gt.config)
    /\ (/\ ret.op = "getTuple"
        /\ ret.arg.checkpoint_id # NoId
        /\ ret.at = nPut)
       => IF KeyOf(ret.arg) \in DOMAIN putLog
          THEN /\ ret.outcome # "undefined"
               /\ ret.outcome = "ok"
                  => ret.value.checkpoint = CpValue(putLog[KeyOf(ret.arg)].checkpoint)
          ELSE ret.outcome = "undefined"

\* the id asked for was never put while a greater id of the chain was:
\* getTuple has returned undefined
ExactLookupWitness ==
    /\ ret.op = "getTuple"
    /\ ret.arg.checkpoint_id = <<1>>
    /\ ret.at = nPut
    /\ ret.outcome = "undefined"
    /\ <<"A", "", <<2>>>> \in DOMAIN putLog

\* C18: getTuple tells a failed resume from an empty history: on a chain
\* without checkpoints it returns undefined, and on a chain that holds
\* checkpoints it gives another outcome when the checkpoint asked for is
\* not found or when decoding fails
FailedResumeDistinct ==
    (ret.op = "getTuple" /\ ret.at = nPut)
    => IF \E k \in DOMAIN putLog : k[1] = ret.arg.thread_id /\ k[2] = NsOf(ret.arg)
       THEN (ret.outcome # "ok") => (ret.outcome # "undefined")
       ELSE ret.outcome = "undefined"

\* the rows a row's parent id names, in the row's own chain
ParentRows(r) ==
    {q \in checkpoints : /\ q.threadId = r.threadId
                         /\ q.checkpointNs = r.checkpointNs
                         /\ q.checkpointId = r.parentCheckpointId}

RECURSIVE EndsAtRoot(_, _)
\* following the parent ids from r leads, without coming back to r or to a
\* row of seen, to a row that has no parent
EndsAtRoot(r, seen) ==
    IF r.parentCheckpointId = NoId THEN TRUE
    ELSE \E q \in ParentRows(r) :
            /\ q \notin seen \cup {r}
            /\ EndsAtRoot(q, seen \cup {r})

\* C16 as stated: in every reachable state, following parent_checkpoint_id
\* from any checkpoint row never revisits a checkpoint and ends at a row
\* whose parent is null
ParentChainInvariant ==
    \A r \in checkpoints : EndsAtRoot(r, {})

\* the parent named by the latest put of every checkpoint is either absent
\* or a smaller id that has been put to the same chain
ConsistentParents ==
    \A k \in DOMAIN putLog :
        \/ putLog[k].parent = NoId
        \/ /\ LexLess(putLog[k].parent, k[3])
           /\ <<k[1], k[2], putLog[k].parent>> \in DOMAIN putLog

\* C16 as amended: every row's parent id is the one its latest put named,
\* unchecked; when each of these is absent or a smaller id put to the same
\* chain, following the parent ids from any row never revisits a checkpoint
\* and ends at a row without parent
ParentChainOfConsistentPuts ==
    /\ \A r \in checkpoints :
          /\ CheckpointKey(r) \in DOMAIN putLog
          /\ r.parentCheckpointId = putLog[CheckpointKey(r)].parent
    /\ ConsistentParents => ParentChainInvariant

\* the chain 2 -> 1 -> none is stored, the row of 1 having been put again
\* after its first put
ParentChainOfConsistentPutsWitness ==
    /\ ConsistentParents
    /\ \E r \in checkpoints : r.checkpointId = <<2>> /\ r.parentCheckpointId = <<1>>
    /\ \E r \in checkpoints : r.checkpointId = <<1>> /\ r.parentCheckpointId = NoId
    /\ putLog[<<"A", "", <<1>>>>].replaced

---------------------------------------------------------------------------
(* one chain: checkpoints put in any order, read by getTuple and by list *)

ChainConfig == Config("A", "", NoId)
\* the ids of the rows of the chain
ChainIdsOf(table) == {r.checkpointId : r \in {q \in table : q.threadId = "A" /\ q.checkpointNs = ""}}
IdsOf(tuples) == [i \in 1..Len(tuples) |-> tuples[i].config.checkpoint_id]
StrictlyDescending(ids) == \A i \in 1..(Len(ids) - 1) : LexLess(ids[i + 1], ids[i])
\* the one sequence that lists every id of the set once, newest first
IsDescendingListOf(ids, S) ==
    /\ StrictlyDescending(ids)
    /\ Len(ids) = Cardinality(S)
    /\ {ids[i] : i \in 1..Len(ids)} = S

NextChain ==
    \/ \E id \in CheckpointIds :
          /\ nPut < MaxChain
          /\ put(ChainConfig, [id |-> id, kind |-> "object", body |-> <<1>>], Obj(<<1>>))
    \/ \E limit \in {NoLimit} \cup 0..MaxLimit, before \in {NoId} \cup CheckpointIds :
          list(ChainConfig, limit, before)
    \/ listYield
    \/ listReturn
    \/ listNextPage

SpecChain == Init /\ [][NextChain]_vars

\* the same chain read by getTuple, by an unbounded list and by the history route
NextLatest ==
    \/ \E id \in CheckpointIds :
          /\ nPut < MaxChain
          /\ put(ChainConfig, [id |-> id, kind |-> "object", body |-> <<1>>], Obj(<<1>>))
    \/ getTupleSelect(ChainConfig)
    \/ getTupleReturn
    \/ list(ChainConfig, NoLimit, NoId)
    \/ listYield
    \/ listReturn
    \/ \E limit \in {None} \cup {Some(n) : n \in 0..MaxLimit} : history("A", limit)

SpecLatest == Init /\ [][NextLatest]_vars

\* C5: getTuple without a checkpoint id returns the row with the greatest
\* checkpoint id of the chain, whatever the order of the puts, and that is the
\* checkpoint an unbounded list of the same chain yields first
LatestIsGreatest ==
    (/\ ret.op = "getTuple"
     /\ ret.outcome = "ok"
     /\ ret.arg = ChainConfig
     /\ ret.at = nPut)
    => /\ ret.value.config.checkpoint_id \in ChainIdsOf(checkpoints)
       /\ \A id \in ChainIdsOf(checkpoints) : ~LexLess(ret.value.config.checkpoint_id, id)
       /\ (/\ ls.phase = "done"
           /\ ls.config = ChainConfig
           /\ ls.before = NoId
           /\ ls.at = nPut)
          => /\ ls.out # <<>>
             /\ ls.out[1].config = ret.value.config
             /\ ls.out[1].checkpoint = ret.value.checkpoint

\* the checkpoint returned is not the one put last: a smaller id was put
\* after it, and a list of the same table starts with it too
LatestIsGreatestWitness ==
    /\ ret.op = "getTuple"
    /\ ret.outcome = "ok"
    /\ ret.arg = ChainConfig
    /\ ret.at = nPut
    /\ lastPut # None
    /\ LexLess(lastPut[1][3], ret.value.config.checkpoint_id)
    /\ ls.phase = "done"
    /\ ls.config = ChainConfig
    /\ ls.before = NoId
    /\ ls.at = nPut

\* C6: list with no before and no limit yields every checkpoint put to the
\* chain exactly once, in strictly descending checkpoint id order; the
\* history route yields the newest ones of them in the same order
ChainOrdering ==
    /\ (/\ ls.phase = "done"
        /\ ls.before = NoId
        /\ ls.limit = NoLimit
        /\ ls.at = nPut)
       => IsDescendingListOf(IdsOf(ls.out), {k[3] : k \in DOMAIN putLog})
    /\ (ret.op = "history" /\ ret.at = nPut)
       => LET ids == [i \in 1..Len(ret.value) |-> ret.value[i].checkpoint_id]
              rest == {k[3] : k \in DOMAIN putLog} \ {ids[i] : i \in 1..Len(ids)}
          IN  /\ StrictlyDescending(ids)
              /\ \A i \in 1..Len(ids) : <<"A", "", ids[i]>> \in DOMAIN putLog
              /\ \A i \in 1..Len(ids) : \A id \in rest : LexLess(id, ids[i])

\* three checkpoints, not put in ascending order, listed newest first
ChainOrderingWitness ==
    /\ ls.phase = "done"
    /\ ls.before = NoId
    /\ ls.limit = NoLimit
    /\ ls.at = nPut
    /\ Len(ls.out) = 3
    /\ lastPut # None
    /\ lastPut[1][3] # ls.out[1].config.checkpoint_id

\* C7: list(before = c) yields only ids strictly less than c, and with no
\* writes in between the pages read one after the other (the first without
\* before, each next one before the last id seen, until a page is empty) add
\* up to the sequence of one unbounded list call
Pagination ==
    /\ (ls.phase # "idle" /\ ls.before # NoId)
       => \A i \in 1..Len(ls.out) : LexLess(ls.out[i].config.checkpoint_id, ls.before)
    /\ (/\ ls.phase = "done"
        /\ ls.paging
        /\ ls.out = <<>>
        /\ ls.start = nPut)
       => IsDescendingListOf(IdsOf(ls.acc), ChainIdsOf(checkpoints))

\* a scan of three checkpoints in pages of at most two, read to its end
PaginationWitness ==
    /\ ls.phase = "done"
    /\ ls.paging
    /\ ls.out = <<>>
    /\ ls.start = nPut
    /\ ls.limit = 2
    /\ Len(ls.acc) = 3

\* C20: list with a limit n >= 0 yields the n greatest matching checkpoint
\* ids in descending order, all of them when fewer than n match, and so
\* never more than n; with the limit left out it yields every matching one
LimitCaps ==
    (ls.phase = "done" /\ ls.at = nPut)
    => LET matching == {id \in ChainIdsOf(checkpoints) :
                           ls.before # NoId => LexLess(id, ls.before)}
           ids == IdsOf(ls.out)
           rest == matching \ {ids[i] : i \in 1..Len(ids)}
       IN  /\ StrictlyDescending(ids)
           /\ \A i \in 1..Len(ids) : ids[i] \in matching
           /\ \A i \in 1..Len(ids) : \A id \in rest : LexLess(id, ids[i])
           /\ IF ls.limit = NoLimit \/ ls.limit >= Cardinality(matching)
              THEN Len(ids) = Cardinality(matching)
              ELSE Len(ids) = ls.limit

---------------------------------------------------------------------------
(* the writes of one task on the checkpoint c2 of a chain c1 <- c2 *)

C1Id == <<1>>
C2Id == <<2>>
WritesConfig == Config("A", "", C2Id)

\* the i-th write of a list carries <<v, i>>; the write at position bad, if
\* any, carries a value that cannot be encoded
WriteList(n, v, bad) ==
    [i \in 1..n |-> <<"ch", IF i = bad THEN Cyclic ELSE Obj(<<v, i>>)>>]

\* putWrites calls alone, one after the other
NextWrites ==
    \/ \E n \in 0..MaxWrites, v \in 1..MaxBody, bad \in 0..MaxWrites :
          /\ bad <= n
          /\ nPutWrites < MaxPutWrites
          /\ putWrites(WritesConfig, WriteList(n, v, bad), "T1")
    \/ putWritesStep
    \/ putWritesReturn

SpecWrites == Init /\ [][NextWrites]_vars

\* the scenario: c1, c2 with parent c1, writes of T1 on c2, getTuple
NextPending ==
    \/ /\ nPut < MaxPuts
       /\ put(ChainConfig, [id |-> C1Id, kind |-> "object", body |-> <<1>>], Obj(<<1>>))
    \/ /\ nPut < MaxPuts
       /\ put(Config("A", "", C1Id), [id |-> C2Id, kind |-> "object", body |-> <<2>>], Obj(<<1>>))
    \/ \E n \in 0..MaxWrites, v \in 1..MaxBody, bad \in 0..MaxWrites :
          /\ bad <= n
          /\ nPutWrites < MaxPutWrites
          /\ putWrites(WritesConfig, WriteList(n, v, bad), "T1")
    \/ putWritesStep
    \/ putWritesReturn
    \/ \E id \in {NoId, C2Id} : getTupleSelect(Config("A", "", id))
    \/ getTupleReturn

SpecPending == Init /\ [][NextPending]_vars

\* C3: when the encoding of one write of the list fails, the call fails and
\* the writes table is exactly as it was before the call
PutWritesAllOrNothing ==
    pw.phase = "threw" => writes = pw.before

\* C4: the writes table holds exactly one row for each write key that was
\* submitted, carrying the channel and the encoded value of the most recent
\* submission under that key, and no other row: a shorter resubmission
\* replaces the indices it supplies and leaves the higher ones as they were
WritesOverwriteInPlace ==
    /\ \A r \in writes : WriteKey(r) \in DOMAIN writeLog
    /\ \A k \in DOMAIN writeLog :
          LET rs == {r \in writes : WriteKey(r) = k}
          IN  /\ Cardinality(rs) = 1
              /\ \A r \in rs :
                    /\ r.channel = writeLog[k][1]
                    /\ r.type = dumpsTyped(writeLog[k][2])[1]
                    /\ r.value = dumpsTyped(writeLog[k][2])[2]

\* [a, b, c] then [a2, b2] for the same task: three rows, a2, b2 and c
WritesOverwriteInPlaceWitness ==
    /\ pw.phase = "returned"
    /\ pw.prev # None
    /\ Len(pw.pendingWrites) = 2
    /\ \E prev \in {pw.prev[1]} :
          /\ prev.config = pw.config
          /\ prev.taskId = pw.taskId
          /\ Len(prev.pendingWrites) = 3
          /\ prev.pendingWrites[1] # pw.pendingWrites[1]
          /\ prev.pendingWrites[2] # pw.pendingWrites[2]
          /\ {<<r.idx, r.value>> : r \in writes} =
                {<<0, dumpsTyped(pw.pendingWrites[1][2])[2]>>,
                 <<1, dumpsTyped(pw.pendingWrites[2][2])[2]>>,
                 <<2, dumpsTyped(prev.pendingWrites[3][2])[2]>>}

\* the values returned for one task, in the order of the result
ValuesOfTask(pending, taskId) ==
    SelectSeq(pending, LAMBDA e : e[1] = taskId)

\* the writes of the task stored under a row's checkpoint, by ascending idx
RECURSIVE ByIndex(_, _)
ByIndex(rows, i) ==
    IF rows = {} THEN <<>>
    ELSE LET hit == {r \in rows : r.idx = i}
         IN  [j \in 1..Cardinality(hit) |->
                  LET r == CHOOSE q \in hit : TRUE
                  IN  <<r.taskId, r.channel, loadsTyped(r.type, r.value)>>]
             \o ByIndex(rows \ hit, i + 1)

\* C8: the pending writes of a task are returned by getTuple in ascending
\* write index, the order in which they were submitted
PendingWritesInSubmittedOrder ==
    [][(gt.phase = "row" /\ gt'.phase = "idle" /\ ret'.outcome = "ok")
        => ValuesOfTask(ret'.value.pendingWrites, "T1")
             = ByIndex({w \in WritesOf(gt.row) : w.taskId = "T1"}, 0)]_vars

---------------------------------------------------------------------------
(* two threads and two namespaces, the same checkpoint id in each chain *)

IsoThreads == {"A", "B"}
IsoNamespaces == {NsUndefined, "sub"}

\* what a caller of (thread, namespace) writes: a value only it writes
Mark(config) ==
    <<IF config.thread_id = "A" THEN 1 ELSE 2, IF NsOf(config) = "" THEN 1 ELSE 2>>
\* the mark of the chain a row belongs to
RowMark(r) == Mark(Config(r.threadId, r.checkpointNs, NoId))
\* the last two characters of a decoded value
MarkOf(v) == SubSeq(v.body, Len(v.body) - 1, Len(v.body))

\* no call is in progress: the callers of this scenario take turns
Quiescent == pw.phase # "loop" /\ gt.phase # "row" /\ ls.phase # "loop"

NextIso ==
    \/ \E t \in IsoThreads, ns \in IsoNamespaces :
          /\ Quiescent
          /\ nPut < MaxIsoPuts
          /\ put(Config(t, ns, NoId),
                 [id |-> C1Id, kind |-> "object", body |-> Mark(Config(t, ns, NoId))],
                 Obj(Mark(Config(t, ns, NoId))))
    \/ \E t \in IsoThreads, ns \in IsoNamespaces :
          /\ Quiescent
          /\ nPutWrites < MaxIsoPutWrites
          /\ putWrites(Config(t, ns, C1Id), <<<<"ch", Obj(Mark(Config(t, ns, NoId)))>>>>, "T1")
    \/ putWritesStep
    \/ putWritesReturn
    \/ \E t \in IsoThreads, ns \in IsoNamespaces, id \in {NoId, C1Id} :
          /\ Quiescent
          /\ getTupleSelect(Config(t, ns, id))
    \/ getTupleReturn
    \/ \E t \in IsoThreads, ns \in IsoNamespaces :
          /\ Quiescent
          /\ list(Config(t, ns, NoId), NoLimit, NoId)
    \/ listYield
    \/ listReturn

SpecIso == Init /\ [][NextIso]_vars

\* a tuple made only of what the callers of the config's chain wrote
OwnTuple(tuple, config) ==
    /\ MarkOf(tuple.checkpoint) = Mark(config)
    /\ MarkOf(tuple.metadata) = Mark(config)
    /\ \A i \in 1..Len(tuple.pendingWrites) : MarkOf(tuple.pendingWrites[i][3]) = Mark(config)
    /\ tuple.config.thread_id = config.thread_id
    /\ NsOf(tuple.config) = NsOf(config)

\* C10: operations issued for one (thread, namespace) never return, list,
\* overwrite or create a row of another thread or namespace: every row holds
\* what the callers of its own chain wrote, and every result holds rows of the
\* chain it was asked for
Isolation ==
    /\ \A r \in checkpoints :
          /\ MarkOf(loadsTyped(r.type, r.checkpoint)) = RowMark(r)
          /\ MarkOf(loadsTyped(r.type, r.metadata)) = RowMark(r)
    /\ \A w \in writes : MarkOf(loadsTyped(w.type, w.value)) = RowMark(w)
    /\ gt.phase = "row"
       => gt.row.threadId = gt.config.thread_id /\ gt.row.checkpointNs = NsOf(gt.config)
    /\ (ret.op = "getTuple" /\ ret.outcome = "ok") => OwnTuple(ret.value, ret.arg)
    /\ ls.phase # "idle"
       => /\ \A i \in 1..Len(ls.rows) :
                /\ ls.rows[i].threadId = ls.config.thread_id
                /\ ls.rows[i].checkpointNs = NsOf(ls.config)
          /\ \A i \in 1..Len(ls.out) : OwnTuple(ls.out[i], ls.config)

\* both threads hold the same id in the same namespace; getTuple of the one
\* has returned its checkpoint with its write, list of the other its checkpoint
IsolationWitness ==
    /\ \A t \in IsoThreads :
          \E r \in checkpoints : r.threadId = t /\ r.checkpointNs = "" /\ r.checkpointId = C1Id
    /\ \E w \in writes : w.threadId = "A" /\ w.checkpointNs = "" /\ w.checkpointId = C1Id
    /\ ret.op = "getTuple"
    /\ ret.outcome = "ok"
    /\ ret.arg = Config("A", NsUndefined, NoId)
    /\ Len(ret.value.pendingWrites) = 1
    /\ ls.phase = "done"
    /\ ls.config.thread_id = "B"
    /\ Len(ls.out) = 1

\* C17: the config of every getTuple result carries the thread id, the
\* namespace and the checkpoint id of the row that was returned, whether or
\* not the caller gave a checkpoint id or a namespace
ResolvedConfig ==
    [][(gt.phase = "row" /\ gt'.phase = "idle" /\ ret'.outcome = "ok")
        => ret'.value.config
             = Config(gt.row.threadId, gt.row.checkpointNs, gt.row.checkpointId)]_vars

\* no checkpoint was ever put to the (thread, namespace) of the config
NothingPut(config) ==
    ~ \E k \in DOMAIN putLog : k[1] = config.thread_id /\ k[2] = NsOf(config)

\* C11: on a (thread, namespace) to which no checkpoint was put, getTuple
\* returns undefined (with or without a checkpoint id), and list yields
\* nothing and does not throw, whatever the other chains and the writes
\* table hold
EmptyChain ==
    /\ (ret.op = "getTuple" /\ NothingPut(ret.arg)) => ret.outcome = "undefined"
    /\ gt.phase = "row" => ~NothingPut(gt.config)
    /\ (ls.phase # "idle" /\ NothingPut(ls.config))
       => /\ ls.phase # "threw"
          /\ ls.rows = <<>>
          /\ ls.out = <<>>

\* getTuple has returned undefined and list has ended without a record on a
\* chain nothing was put to, while another chain holds a checkpoint
EmptyChainWitness ==
    /\ checkpoints # {}
    /\ ret.op = "getTuple"
    /\ ret.outcome = "undefined"
    /\ NothingPut(ret.arg)
    /\ ls.phase = "done"
    /\ ls.config.thread_id = ret.arg.thread_id
    /\ NsOf(ls.config) = NsOf(ret.arg)
    /\ ls.out = <<>>

---------------------------------------------------------------------------
(* the checkpointer cache: getCheckpointer calls that may overlap *)

CacheThreads == {"A", "B"}

NextCache ==
    \/ \E p \in 1..MaxCallers, t \in CacheThreads : getCheckpointer(p, t)
    \/ \E p \in 1..MaxCallers : getCheckpointerResume(p)

SpecCache == Init /\ [][NextCache]_vars

\* C9: all getCheckpointer calls for one thread id return the same handle,
\* and at most one handle is ever opened for a thread id
OneHandlePerThread ==
    /\ \A p, q \in 1..MaxCallers :
          (/\ calls[p].pc = "returned"
           /\ calls[q].pc = "returned"
           /\ calls[p].threadId = calls[q].threadId)
          => calls[p].checkpointer = calls[q].checkpointer
    /\ \A i, j \in 1..Len(handles) :
          (/\ handles[i].initialized
           /\ handles[j].initialized
           /\ handles[i].threadId = handles[j].threadId)
          => i = j

---------------------------------------------------------------------------
(* put calls of several callers that overlap on one chain, each caller then
   reading back with the config its put returned *)

\* the v-th version of a checkpoint: its parent, its kind (and so its type
\* tag), its payload and its metadata all differ from version to version
RaceConfig(v) == Config("A", NsUndefined, IF v = 1 THEN NoId ELSE C1Id)
RaceCheckpoint(id, v) ==
    [id |-> id, kind |-> IF v = 2 THEN "bytes" ELSE "object", body |-> <<v>>]

NextRace ==
    \/ \E p \in 1..MaxPutters, id \in PutIds, v \in 1..MaxBody :
          putStart(p, RaceConfig(v), RaceCheckpoint(id, v), Obj(<<v>>))
    \/ \E p \in 1..MaxPutters : putCommit(p)
    \/ \E p \in 1..MaxPutters :
          /\ puts[p].phase = "returned"
          /\ getTupleSelect(puts[p].value)
    \/ getTupleReturn

SpecRace == Init /\ [][NextRace]_vars

\* the row one put call writes, all of its fields
RowOfPut(c) ==
    [threadId |-> c.config.thread_id,
     checkpointNs |-> NsOf(c.config),
     checkpointId |-> c.checkpoint.id,
     parentCheckpointId |-> c.config.checkpoint_id,
     type |-> dumpsTyped(CpValue(c.checkpoint))[1],
     checkpoint |-> dumpsTyped(CpValue(c.checkpoint))[2],
     metadata |-> dumpsTyped(c.metadata)[2]]

\* C13: when put calls to the same key overlap, none of them fails, the key
\* has exactly one row, and that row is the whole row of one call, the one
\* whose insert was applied last: parent, type, payload and metadata are
\* never a mixture of two calls
ConcurrentPutsLastWins ==
    /\ \A p \in 1..MaxPutters : puts[p].phase # "threw"
    /\ \A r \in checkpoints : CheckpointKey(r) \in DOMAIN putLog
    /\ \A k \in DOMAIN putLog :
          LET rs == {r \in checkpoints : CheckpointKey(r) = k}
          IN  /\ Cardinality(rs) = 1
              /\ \A r \in rs :
                    /\ \E p \in 1..MaxPutters :
                          /\ puts[p].phase = "returned"
                          /\ r = RowOfPut(puts[p])
                    /\ r.parentCheckpointId = putLog[k].parent
                    /\ r.checkpoint = dumpsTyped(CpValue(putLog[k].checkpoint))[2]
                    /\ r.metadata = dumpsTyped(putLog[k].metadata)[2]

\* two calls that were in flight at the same time have put two versions of
\* one checkpoint id, and both have returned
ConcurrentPutsLastWinsWitness ==
    \E p, q \in 1..MaxPutters :
        /\ p # q
        /\ puts[p].phase = "returned"
        /\ puts[q].phase = "returned"
        /\ puts[p].overlapped
        /\ puts[q].overlapped
        /\ puts[p].value = puts[q].value
        /\ puts[p].checkpoint # puts[q].checkpoint
        /\ RowOfPut(puts[p]) \in checkpoints

\* C14: put returns the config (thread, namespace, checkpoint.id) of the
\* checkpoint it stored, and getTuple with that config returns that
\* checkpoint under that id, whatever puts of other ids have been applied in
\* the meantime
PinnedRead ==
    /\ \A p \in 1..MaxPutters :
          puts[p].phase = "returned"
          => puts[p].value = Config(puts[p].config.thread_id, NsOf(puts[p].config),
                                    puts[p].checkpoint.id)
    /\ \A p \in 1..MaxPutters :
          (/\ puts[p].phase = "returned"
           /\ ret.op = "getTuple"
           /\ ret.arg = puts[p].value
           /\ \A q \in 1..MaxPutters \ {p} :
                 puts[q].phase = "idle" \/ puts[q].checkpoint.id # puts[p].checkpoint.id)
          => /\ ret.outcome = "ok"
             /\ ret.value.checkpoint = CpValue(puts[p].checkpoint)
             /\ ret.value.config = puts[p].value

\* two overlapping calls have put the ids 1 and 2; after both, getTuple with
\* the config returned for id 1 has returned id 1, not the newer id 2
PinnedReadWitness ==
    \E p, q \in 1..MaxPutters :
        /\ puts[p].phase = "returned"
        /\ puts[q].phase = "returned"
        /\ puts[p].overlapped
        /\ puts[p].checkpoint.id = <<1>>
        /\ puts[q].checkpoint.id = <<2>>
        /\ ret.op = "getTuple"
        /\ ret.arg = puts[p].value
        /\ ret.at = nPut
        /\ ret.outcome = "ok"
        /\ ret.value.config.checkpoint_id = <<1>>

---------------------------------------------------------------------------
(* one chain read page by page while checkpoints are put to it *)

NextScan ==
    \/ \E id \in CheckpointIds :
          /\ nPut < MaxChain
          /\ put(ChainConfig, [id |-> id, kind |-> "object", body |-> <<1>>], Obj(<<1>>))
    \/ \E limit \in 1..MaxLimit : listScan(ChainConfig, limit)
    \/ listYield
    \/ listReturn
    \/ listNextPage

SpecScan == Init /\ [][NextScan]_vars

\* the records the scan has yielded so far, over all of its pages
Scanned == IF ls.phase = "done" THEN ls.acc ELSE ls.acc \o ls.out

\* C15: with puts between the pages of a scan (each page a list call with
\* a limit and before set to the last id seen), no checkpoint id is yielded
\* twice, and when the scan ends with an empty page every checkpoint that
\* existed when it began has been yielded
ScanUnderPuts ==
    ls.phase # "idle"
    => /\ StrictlyDescending(IdsOf(Scanned))
       /\ (ls.phase = "done" /\ ls.out = <<>>)
          => scan \subseteq {ls.acc[i].config.checkpoint_id : i \in 1..Len(ls.acc)}

\* a scan over more than one page has ended; checkpoints were put while it
\* ran, one below the cursor, which the scan has yielded, and one above it,
\* which it has not
ScanUnderPutsWitness ==
    /\ ls.phase = "done"
    /\ ls.out = <<>>
    /\ scan # {}
    /\ ls.start < nPut
    /\ Len(ls.acc) >= 2
    /\ \E i \in 1..Len(ls.acc) : ls.acc[i].config.checkpoint_id \notin scan
    /\ \E id \in ChainIdsOf(checkpoints) :
          id \notin {ls.acc[i].config.checkpoint_id : i \in 1..Len(ls.acc)}

---------------------------------------------------------------------------
(* pending writes that do not decode: the checkpoint c2 with the writes of
   one task, one of which may carry a value whose encoding cannot be read *)

\* the i-th write of the list carries <<v, i>>; the write at position bad, if
\* any, carries undefined
WriteListUndefined(n, v, bad) ==
    [i \in 1..n |-> <<"ch", IF i = bad THEN Undefined ELSE Obj(<<v, i>>)>>]

NextDecode ==
    \/ /\ checkpoints = {}
       /\ put(ChainConfig, [id |-> C2Id, kind |-> "object", body |-> <<2>>], Obj(<<1>>))
    \/ \E n \in 1..MaxWrites, bad \in 0..MaxWrites :
          /\ bad <= n
          /\ nPutWrites < MaxIsoPutWrites
          /\ putWrites(WritesConfig, WriteListUndefined(n, 1, bad), "T1")
    \/ putWritesStep
    \/ putWritesReturn
    \/ \E id \in {NoId, C2Id} : getTupleSelect(Config("A", "", id))
    \/ getTupleReturn

SpecDecode == Init /\ [][NextDecode]_vars

\* C19: when one of the pending writes of the checkpoint read does not
\* decode, getTuple fails; it returns a result only when every write
\* decodes, and then with every one of them
WriteDecodeFailureFails ==
    [][(gt.phase = "row" /\ gt'.phase = "idle")
        => IF \E w \in WritesOf(gt.row) : loadsTyped(w.type, w.value) = DecodeFailure
           THEN ret'.outcome = "error"
           ELSE /\ ret'.outcome = "ok"
                /\ Len(ret'.value.pendingWrites) = Cardinality(WritesOf(gt.row))
                /\ \A w \in WritesOf(gt.row) :
                      \E i \in 1..Len(ret'.value.pendingWrites) :
                          ret'.value.pendingWrites[i]
                            = <<w.taskId, w.channel, loadsTyped(w.type, w.value)>>]_vars

\* getTuple has failed on a checkpoint with several writes of which one
\* does not decode and another does
WriteDecodeFailureFailsWitness ==
    /\ ret.op = "getTuple"
    /\ ret.outcome = "error"
    /\ gt.phase = "idle"
    /\ \E w \in writes : loadsTyped(w.type, w.value) = DecodeFailure
    /\ \E w \in writes : loadsTyped(w.type, w.value) # DecodeFailure

---------------------------------------------------------------------------
(* deleting a thread while callers put, putWrites and read on two threads *)

DelThreads == {"A", "B"}

NextDelete ==
    \/ POST_threads("A")
    \/ \E t \in DelThreads :
          /\ nPut < MaxDelPuts
          /\ put(Config(t, "", NoId), [id |-> C1Id, kind |-> "object", body |-> <<1>>],
                 Obj(<<1>>))
    \/ \E t \in DelThreads :
          /\ nPutWrites < MaxDelPutWrites
          /\ putWrites(Config(t, "", C1Id), WriteList(1, 1, 0), "T1")
    \/ putWritesStep
    \/ putWritesReturn
    \/ DELETE("A")
    \/ DELETE_checkpoints
    \/ DELETE_writes
    \/ DELETE_threads
    \/ /\ ls.phase # "loop"
       /\ getTupleSelect(Config("A", "", NoId))
    \/ getTupleReturn
    \/ /\ gt.phase = "idle"
       /\ list(Config("A", "", NoId), NoLimit, NoId)
    \/ listYield
    \/ listReturn

SpecDelete == Init /\ [][NextDelete]_vars

\* the DELETE of thread t has returned success and no put and no write of a
\* putWrites for t has been stored since its statements ran
Deleted(t) ==
    /\ del.pc = "returned"
    /\ del.threadId = t
    /\ \A k \in DOMAIN putLog : k[1] # t
    /\ \A k \in DOMAIN writeLog : k[1] # t

\* C21: the statements of DELETE /api/threads/:threadId remove every
\* checkpoints row and every writes row of the thread and no row of another
\* thread; once it has returned success and no put or putWrites for the
\* thread overlapped it or came later, the thread has no rows, a getTuple
\* on it finds nothing and a list on it has no rows to yield
ThreadDeletion ==
    [][/\ (del.pc = "checkpoints" /\ del'.pc = "writes")
          => checkpoints' = {r \in checkpoints : r.threadId # del.threadId}
       /\ (del.pc = "writes" /\ del'.pc = "threads")
          => writes' = {r \in writes : r.threadId # del.threadId}
       /\ \A t \in DelThreads :
             Deleted(t)' => /\ \A r \in checkpoints' : r.threadId # t
                            /\ \A r \in writes' : r.threadId # t
       /\ \A t \in DelThreads :
             Deleted(t) =>
                /\ ~(gt.phase = "idle" /\ gt'.phase = "row" /\ gt'.config.thread_id = t)
                /\ (ls.phase # "loop" /\ ls'.phase = "loop" /\ ls'.config.thread_id = t)
                   => ls'.rows = <<>>]_vars

\* a DELETE that removed a checkpoint and a write of thread A has returned,
\* getTuple and list on A have since found nothing, and the row of thread B
\* is still there
ThreadDeletionWitness ==
    /\ Deleted("A")
    /\ del.cps # {}
    /\ del.wrs # {}
    /\ ret.op = "getTuple" /\ ret.outcome = "undefined" /\ ret.arg.thread_id = "A"
    /\ ls.phase = "done" /\ ls.config.thread_id = "A" /\ ls.out = <<>>
    /\ \E r \in checkpoints : r.threadId = "B"

---------------------------------------------------------------------------
(* put with any parent id, a row of the chain or not, and the reads after it *)

ParentIds == {NoId, <<1>>, <<2>>}

NextParent ==
    \/ \E parent \in ParentIds, id \in PutIds, b \in Bodies :
          /\ nPut < MaxParentPuts
          /\ put(Config("A", "", parent), [id |-> id, kind |-> "object", body |-> b],
                 Obj(<<1>>))
    \/ \E id \in PutIds \cup {NoId} :
          /\ ls.phase # "loop"
          /\ getTupleSelect(Config("A", "", id))
    \/ getTupleReturn
    \/ /\ gt.phase = "idle"
       /\ list(Config("A", "", NoId), NoLimit, NoId)
    \/ listYield
    \/ listReturn

SpecParent == Init /\ [][NextParent]_vars

\* the parent reference a record of the key must carry
ParentOfPut(k) ==
    IF putLog[k].parent = NoId THEN None ELSE Some(Config(k[1], k[2], putLog[k].parent))

\* C23: put succeeds whatever its parent id, a row of the chain or not, and
\* stores it; getTuple and list then return a parent reference with that id
\* in the thread and namespace of the checkpoint, and none when the put gave
\* no parent id
ParentNotValidated ==
    /\ ret.op = "put" => ret.outcome = "ok"
    /\ \A k \in DOMAIN putLog :
          \E r \in checkpoints : /\ CheckpointKey(r) = k
                                 /\ r.parentCheckpointId = putLog[k].parent
    /\ (ret.op = "getTuple" /\ ret.outcome = "ok" /\ ret.at = nPut)
       => ret.value.parentConfig = ParentOfPut(KeyOf(ret.value.config))
    /\ ls.phase # "idle" /\ ls.at = nPut
       => \A i \in 1..Len(ls.out) :
             ls.out[i].parentConfig = ParentOfPut(KeyOf(ls.out[i].config))

\* getTuple and list have returned a checkpoint whose parent id has no row,
\* with the reference to it
ParentNotValidatedWitness ==
    /\ ret.op = "getTuple" /\ ret.outcome = "ok" /\ ret.at = nPut
    /\ ret.value.parentConfig # None
    /\ ~\E r \in checkpoints : r.checkpointId = ret.value.parentConfig[1].checkpoint_id
    /\ ls.phase = "done" /\ ls.at = nPut
    /\ \E i \in 1..Len(ls.out) :
          /\ ls.out[i].parentConfig # None
          /\ ~\E r \in checkpoints :
                r.checkpointId = ls.out[i].parentConfig[1].checkpoint_id

---------------------------------------------------------------------------
(* pending writes on two checkpoints of one chain, and the reads of both *)

OwnIds == {C1Id, C2Id}

NextOwn ==
    \/ \E id \in OwnIds :
          /\ ExactRow("A", "", id) = {}
          /\ put(ChainConfig, [id |-> id, kind |-> "object", body |-> <<1>>], Obj(<<1>>))
    \/ \E id \in OwnIds, v \in 1..MaxBody :
          /\ nPutWrites < MaxOwnPutWrites
          /\ putWrites(Config("A", "", id), WriteList(IF id = C1Id THEN 1 ELSE 2, v, 0), "T1")
    \/ putWritesStep
    \/ putWritesReturn
    \/ \E id \in OwnIds \cup {NoId} :
          /\ ls.phase # "loop"
          /\ getTupleSelect(Config("A", "", id))
    \/ getTupleReturn
    \/ /\ gt.phase = "idle"
       /\ list(ChainConfig, NoLimit, NoId)
    \/ listYield
    \/ listReturn

SpecOwn == Init /\ [][NextOwn]_vars

\* pending has one entry for each write key submitted under the checkpoint
\* of the record, with the channel and the value, encoded and decoded, of the
\* latest submission under that key, and nothing else
ExactlyOwn(tuple) ==
    LET ks == {k \in DOMAIN writeLog : <<k[1], k[2], k[3]>> = KeyOf(tuple.config)}
    IN  /\ Len(tuple.pendingWrites) = Cardinality(ks)
        /\ \A k \in ks :
              \E i \in 1..Len(tuple.pendingWrites) :
                  tuple.pendingWrites[i]
                    = <<k[4], writeLog[k][1],
                        loadsTyped(dumpsTyped(writeLog[k][2])[1],
                                   dumpsTyped(writeLog[k][2])[2])>>

\* C24: the pendingWrites of a record returned by getTuple or yielded by
\* list has exactly one entry for each writes row stored under the record's
\* own (thread, namespace, checkpoint id) when the writes were read, none of
\* another checkpoint, each with the channel and the decoded value of the
\* latest putWrites to its (task id, index)
OwnPendingWrites ==
    [][/\ (gt.phase = "row" /\ gt'.phase = "idle" /\ ret'.outcome = "ok")
          => ExactlyOwn(ret'.value)
       /\ (ls.phase = "loop" /\ ls'.phase = "loop" /\ Len(ls'.out) = Len(ls.out) + 1)
          => ExactlyOwn(ls'.out[Len(ls'.out)])]_vars

\* both checkpoints carry writes, the second of them two; getTuple has
\* returned one of them and list has yielded both, each with its own writes
OwnPendingWritesWitness ==
    /\ \E w \in writes : w.checkpointId = C1Id
    /\ \E w \in writes : w.checkpointId = C2Id /\ w.idx = 1
    /\ ret.op = "getTuple" /\ ret.outcome = "ok"
    /\ ret.value.pendingWrites # <<>>
    /\ ls.phase = "done"
    /\ Len(ls.out) = 2
    /\ Len(ls.out[1].pendingWrites) = 2
    /\ Len(ls.out[2].pendingWrites) = 1

---------------------------------------------------------------------------
(* list calls, one after the other, while checkpoints are put; the pending
   writes of one checkpoint are stored before the first put *)

NextReread ==
    \/ /\ nPut = 0
       /\ nPutWrites = 0
       /\ putWrites(Config("A", "", C2Id), WriteList(2, 1, 0), "T1")
    \/ putWritesStep
    \/ putWritesReturn
    \/ \E id \in CheckpointIds :
          /\ pw.phase # "loop"
          /\ nPut < MaxRereadPuts
          /\ put(ChainConfig, [id |-> id, kind |-> "object", body |-> <<1>>], Obj(<<1>>))
    \/ /\ pw.phase # "loop"
       /\ list(ChainConfig, NoLimit, NoId)
    \/ listYield
    \/ listReturn

SpecReread == Init /\ [][NextReread]_vars

\* the ids an enumeration has yielded or has yet to yield
Enumerated(l) ==
    {l.rows[i].checkpointId : i \in 1..Len(l.rows)}
        \cup {l.out[i].config.checkpoint_id : i \in 1..Len(l.out)}

\* the record list yields for a row, its pending writes taken as a collection
IsRecordOf(tuple, row) ==
    /\ tuple.config = Config(row.threadId, row.checkpointNs, row.checkpointId)
    /\ tuple.checkpoint = loadsTyped(row.type, row.checkpoint)
    /\ tuple.metadata = loadsTyped(row.type, row.metadata)
    /\ Len(tuple.pendingWrites) = Cardinality(WritesOf(row))
    /\ \A w \in WritesOf(row) :
          \E i \in 1..Len(tuple.pendingWrites) :
              tuple.pendingWrites[i] = <<w.taskId, w.channel, loadsTyped(w.type, w.value)>>

\* C25: list reads the checkpoint rows once: what an enumeration yields or
\* has yet to yield never grows, and a checkpoint committed while it runs is
\* not in it; a list that read the rows after the commit yields it; and a
\* list over a store that has not changed since it read yields the sequence
\* the store determines, newest first, so the same sequence each time
ListRereads ==
    [][/\ (ls.phase = "loop" /\ ls'.phase # "idle")
          => /\ Enumerated(ls') \subseteq Enumerated(ls)
             /\ \A r \in checkpoints' :
                   (~\E q \in checkpoints : CheckpointKey(q) = CheckpointKey(r))
                   => r.checkpointId \notin Enumerated(ls')
       /\ (ls'.phase = "done" /\ ls'.at = nPut')
          => /\ Len(ls'.out) = Cardinality(checkpoints')
             /\ \A r \in checkpoints' :
                   \E i \in 1..Len(ls'.out) : IsRecordOf(ls'.out[i], r)
             /\ \A i \in 1..(Len(ls'.out) - 1) :
                   LexLess(ls'.out[i + 1].config.checkpoint_id,
                           ls'.out[i].config.checkpoint_id)]_vars

\* an enumeration has ended without the checkpoint that was committed while
\* it ran, although that checkpoint is newer than one it yielded
ListRereadsWitness ==
    /\ ls.phase = "done"
    /\ ls.out # <<>>
    /\ ls.at < nPut
    /\ \E r \in checkpoints :
          /\ r.checkpointId \notin Enumerated(ls)
          /\ LexLess(r.checkpointId, ls.out[Len(ls.out)].config.checkpoint_id)
    /\ \E i \in 1..Len(ls.out) : Len(ls.out[i].pendingWrites) = 2

---------------------------------------------------------------------------
(* getTuple calls while one putWrites call stores its writes *)

NextPrefix ==
    \/ /\ checkpoints = {}
       /\ put(Config("A", "", C1Id), [id |-> C2Id, kind |-> "object", body |-> <<1>>],
              Obj(<<1>>))
    \/ \E n \in 1..MaxWrites :
          /\ nPutWrites < MaxPrefixPutWrites
          /\ putWrites(WritesConfig, WriteList(n, 1, 0), "T1")
    \/ putWritesStep
    \/ putWritesReturn
    \/ \E id \in {NoId, C2Id} : getTupleSelect(Config("A", "", id))
    \/ getTupleReturn

SpecPrefix == Init /\ [][NextPrefix]_vars

\* C26: a getTuple that reads the writes while a putWrites call for a task
\* without earlier rows on that checkpoint is in progress returns, for the
\* task, exactly the first j writes of the call for some j from 0 to their
\* number: never a write without every write of lower index
PutWritesPrefix ==
    [][(/\ gt.phase = "row"
        /\ gt'.phase = "idle"
        /\ ret'.outcome = "ok"
        /\ pw.phase = "loop"
        /\ KeyOf(pw.config) = CheckpointKey(gt.row)
        /\ \A w \in pw.before :
              ~(/\ <<w.threadId, w.checkpointNs, w.checkpointId>> = KeyOf(pw.config)
                /\ w.taskId = pw.taskId))
        => LET got == ValuesOfTask(ret'.value.pendingWrites, pw.taskId)
           IN  /\ Len(got) <= Len(pw.pendingWrites)
               /\ {got[i] : i \in 1..Len(got)}
                    = {<<pw.taskId, pw.pendingWrites[i][1], pw.pendingWrites[i][2]>> :
                          i \in 1..Len(got)}]_vars

\* getTuple has returned two of the three writes of a call still in progress
PutWritesPrefixWitness ==
    /\ pw.phase = "loop"
    /\ pw.prev = None
    /\ Len(pw.pendingWrites) = 3
    /\ pw.idx = 2
    /\ ret.op = "getTuple" /\ ret.outcome = "ok"
    /\ Len(ret.value.pendingWrites) = 2

---------------------------------------------------------------------------
(* the checkpointer cache with its teardown: getCheckpointer, closeCheckpointer
   and closeRuntime calls that may overlap *)

NextClose ==
    \/ \E p \in 1..MaxCallers, t \in CacheThreads : getCheckpointer(p, t)
    \/ \E p \in 1..MaxCallers : getCheckpointerResume(p)
    \/ \E p \in 1..MaxCallers, t \in CacheThreads : closeCheckpointer(p, t)
    \/ \E p \in 1..MaxCallers : closeCheckpointerResume(p)
    \/ \E p \in 1..MaxCallers : closeRuntime(p)
    \/ \E p \in 1..MaxCallers : closeRuntimeResume(p)

SpecClose == Init /\ [][NextClose]_vars

\* C27: a handle that getCheckpointer returns has not had close() called on
\* it when it is returned
NoClosingHandle ==
    [][\A p \in 1..MaxCallers :
          (calls[p].pc # "returned" /\ calls'[p].pc = "returned")
          => calls'[p].checkpointer \notin closed']_vars

\* C28: when closeRuntime resolves, the Map is empty and close() has been
\* called on every handle that getCheckpointer has opened
NoHandleLeftUnclosed ==
    [][\A p \in 1..MaxCallers :
          (calls[p].pc = "closeAll" /\ calls'[p].pc = "closedAll")
          => /\ DOMAIN checkpointers' = {}
             /\ \A h \in 1..Len(handles') : handles'[h].initialized => h \in closed']_vars

---------------------------------------------------------------------------
(* put and putWrites on two checkpoints, in any order: a putWrites may come
   before the put of its checkpoint, and a checkpoint may be put again *)

NextFrame ==
    \/ \E id \in OwnIds, b \in Bodies :
          /\ nPut < MaxFramePuts
          /\ put(ChainConfig, [id |-> id, kind |-> "object", body |-> b], Obj(<<1>>))
    \/ \E id \in OwnIds, n \in 1..2 :
          /\ nPutWrites < MaxFramePutWrites
          /\ putWrites(Config("A", "", id), WriteList(n, 1, 0), "T1")
    \/ putWritesStep
    \/ putWritesReturn

SpecFrame == Init /\ [][NextFrame]_vars

\* the rows that a step adds, removes or replaces
Changed(table) == (table \ table') \cup (table' \ table)

\* C29: put changes at most the one checkpoints row it addresses and never
\* the writes table, so a put of a checkpoint again leaves its pending writes
\* as they were; putWrites changes only writes rows of its (thread, namespace,
\* checkpoint id, task id) with an index below the number of its writes and
\* never the checkpoints table, and it stores them whether or not the
\* checkpoint has a row
FrameOfPutAndPutWrites ==
    [][/\ nPut' # nPut
          => /\ writes' = writes
             /\ \A r \in Changed(checkpoints) :
                   /\ ret'.outcome = "ok"
                   /\ CheckpointKey(r) = KeyOf(ret'.value)
       /\ pw' # pw
          => /\ checkpoints' = checkpoints
             /\ \A w \in Changed(writes) :
                   /\ <<w.threadId, w.checkpointNs, w.checkpointId>> = KeyOf(pw.config)
                   /\ w.taskId = pw.taskId
                   /\ w.idx \in 0..(Len(pw.pendingWrites) - 1)
       /\ (pw.phase = "loop" /\ pw'.phase = "returned")
          => \A i \in 1..Len(pw.pendingWrites) :
                \E w \in writes' :
                    /\ <<w.threadId, w.checkpointNs, w.checkpointId>> = KeyOf(pw.config)
                    /\ w.taskId = pw.taskId
                    /\ w.idx = i - 1
                    /\ w.value = dumpsTyped(pw.pendingWrites[i][2])[2]]_vars

\* a putWrites for a checkpoint without a row has returned with its rows
\* stored, and a checkpoint with pending writes has been put again
FrameOfPutAndPutWritesWitness ==
    /\ pw.phase = "returned"
    /\ ExactRow("A", "", pw.config.checkpoint_id) = {}
    /\ \E w \in writes : w.checkpointId = pw.config.checkpoint_id
    /\ \E k \in DOMAIN putLog :
          /\ putLog[k].replaced
          /\ \E w \in writes : <<w.threadId, w.checkpointNs, w.checkpointId>> = k

---------------------------------------------------------------------------
(* agent runs on one thread: stream and resume requests that may overlap *)

NextRun ==
    \/ POST_threads("A")
    \/ \E r \in 1..MaxRuns : POST_stream(r, "A")
    \/ \E r \in 1..MaxRuns : POST_resume(r, "A")
    \/ \E r \in 1..MaxRuns : run_busy(r)
    \/ \E r \in 1..MaxRuns : run_create(r)
    \/ \E r \in 1..MaxRuns : run_stream(r)
    \/ \E r \in 1..MaxRuns : run_idle(r)
    \/ \E r \in 1..MaxRuns : run_error(r)

SpecRun == Init /\ [][NextRun]_vars

Has(log, e) == \E i \in 1..Len(log) : log[i] = e

\* the run has set the status to busy and has not yet set its final status
InProgress(run) == run.pc \in {"create", "stream", "idle_update", "error_update"}

\* C30: each run sets the status to busy before it creates the agent; a run
\* whose agent stream completed has emitted a done event and set the status
\* to idle, a run in which a step threw has emitted an error event and set
\* the status to error, and both have then closed the stream; so the status
\* of a thread is busy while a run on it is in progress, and is not busy
\* when every run on it has finished
RunLifecycle ==
    /\ \A r \in 1..MaxRuns :
          LET run == runs[r]
          IN  /\ (run.pc # "idle" /\ Has(run.log, "agent")) => run.log[1] = "busy"
              /\ run.pc = "finished"
                 => /\ run.log[Len(run.log)] = "close"
                    /\ IF run.threw
                       THEN Has(run.log, "error") /\ Has(run.log, "status_error")
                       ELSE Has(run.log, "done") /\ Has(run.log, "idle")
              /\ InProgress(run) => threads[run.threadId].status = "busy"
    /\ (/\ \E r \in 1..MaxRuns : runs[r].pc = "finished"
        /\ \A r \in 1..MaxRuns : runs[r].pc \in {"idle", "finished"})
       => threads["A"].status # "busy"

====
